---- MODULE Spec2Model ----
(***************************************************************************)
(* SearchBot (searchbot.py): a model of main() = load_queries() ; run().   *)
(*                                                                         *)
(* Text read from the queries file is a sequence of one-character strings, *)
(* so that line splitting and str.strip() are computed character by        *)
(* character.  The results file is the sequence of strings handed to       *)
(* f.write(), in order; a failed write leaves a prefix of them on disk.    *)
(* The search provider (googlesearch.search) is opaque: for a query it     *)
(* yields some number of URLs and then either ends or raises.              *)
(***************************************************************************)
EXTENDS Integers, Sequences, FiniteSets, TLC

VARIABLES
    pc,                   \* position in main(): start, idle, search, save, account, summary, done, crashed
    queries_file_exists,  \* os.path.exists(self.queries_file)
    queries_file_text,    \* content of the queries file, a sequence of characters
    results_file_exists,  \* os.path.exists(self.results_file)
    results_file_chunks,  \* content of the results file, the strings written so far
    queries,              \* the list load_queries() returned, each query a sequence of characters
    i,                    \* the loop index of run(), 1-based
    urls,                 \* the list search_query() returned for query i
    session_stats,        \* self.session_stats
    uncaught,             \* the exception propagating out of main(), "none" while there is none
    searches,             \* history: one record per call of search(), in call order
    sleeps,               \* history: number of time.sleep() calls, per kind
    summary,              \* history: the stats print_summary() printed, <<>> while it has not run
    io_failed,            \* history: the results file could not be opened or written
    log0                  \* history: the results file as it was when the process started

vars == <<pc, queries_file_exists, queries_file_text, results_file_exists, results_file_chunks,
          queries, i, urls, session_stats, uncaught, searches, sleeps, summary, io_failed, log0>>

-----------------------------------------------------------------------------
(* Bounds of the model *)

MaxQueries == 2      \* queries in the file of a session
MaxFileLen == 5      \* characters of a queries file in SpecLoad
max_results == 2     \* SearchBot.max_results (--num-results)

(* Program constants *)

SeparatorWidth == 50     \* "-" * 50

-----------------------------------------------------------------------------
(* Strings *)

\* The string made of the characters of a sequence.
RECURSIVE Str(_)
Str(cs) == IF cs = <<>> THEN "" ELSE Head(cs) \o Str(Tail(cs))

\* s * n
RECURSIVE Repeat(_, _)
Repeat(s, n) == IF n = 0 THEN "" ELSE s \o Repeat(s, n - 1)

\* The concatenation of a sequence of sequences.
RECURSIVE Flatten(_)
Flatten(ss) == IF ss = <<>> THEN <<>> ELSE Head(ss) \o Flatten(Tail(ss))

\* Characters str.strip() removes.
Whitespace == {" ", "\t", "\n", "\r", "\f"}

RECURSIVE lstrip(_)
lstrip(s) == IF s # <<>> /\ Head(s) \in Whitespace THEN lstrip(Tail(s)) ELSE s

RECURSIVE rstrip(_)
rstrip(s) ==
    IF s # <<>> /\ s[Len(s)] \in Whitespace THEN rstrip(SubSeq(s, 1, Len(s) - 1)) ELSE s

strip(s) == rstrip(lstrip(s))

startswith(s, prefix) ==
    Len(s) >= Len(prefix) /\ SubSeq(s, 1, Len(prefix)) = prefix

-----------------------------------------------------------------------------
(* setup_queries_file: the template written when the queries file is absent *)

\* f.write('# SearchBot Queries File\n')  (line 30)
TemplateWrite1 ==
    <<"#", " ", "S", "e", "a", "r", "c", "h", "B", "o", "t", " ", "Q", "u", "e", "r",
      "i", "e", "s", " ", "F", "i", "l", "e", "\n">>

\* f.write('# Add your search queries here, one per line\n')  (line 31)
TemplateWrite2 ==
    <<"#", " ", "A", "d", "d", " ", "y", "o", "u", "r", " ", "s", "e", "a", "r", "c",
      "h", " ", "q", "u", "e", "r", "i", "e", "s", " ", "h", "e", "r", "e", ",", " ",
      "o", "n", "e", " ", "p", "e", "r", " ", "l", "i", "n", "e", "\n">>

\* f.write('# Lines starting with # are comments and will be ignored\n\n')  (line 32)
TemplateWrite3 ==
    <<"#", " ", "L", "i", "n", "e", "s", " ", "s", "t", "a", "r", "t", "i", "n", "g",
      " ", "w", "i", "t", "h", " ", "#", " ", "a", "r", "e", " ", "c", "o", "m", "m",
      "e", "n", "t", "s", " ", "a", "n", "d", " ", "w", "i", "l", "l", " ", "b", "e",
      " ", "i", "g", "n", "o", "r", "e", "d", "\n", "\n">>

\* f.write('# Example queries:\n')  (line 33)
TemplateWrite4 ==
    <<"#", " ", "E", "x", "a", "m", "p", "l", "e", " ", "q", "u", "e", "r", "i", "e",
      "s", ":", "\n">>

\* f.write('# python web scraping tutorial\n')  (line 34)
TemplateWrite5 ==
    <<"#", " ", "p", "y", "t", "h", "o", "n", " ", "w", "e", "b", " ", "s", "c", "r",
      "a", "p", "i", "n", "g", " ", "t", "u", "t", "o", "r", "i", "a", "l", "\n">>

\* f.write('# machine learning best practices\n')  (line 35)
TemplateWrite6 ==
    <<"#", " ", "m", "a", "c", "h", "i", "n", "e", " ", "l", "e", "a", "r", "n", "i",
      "n", "g", " ", "b", "e", "s", "t", " ", "p", "r", "a", "c", "t", "i", "c", "e",
      "s", "\n">>

\* f.write('# REST API design patterns\n')  (line 36)
TemplateWrite7 ==
    <<"#", " ", "R", "E", "S", "T", " ", "A", "P", "I", " ", "d", "e", "s", "i", "g",
      "n", " ", "p", "a", "t", "t", "e", "r", "n", "s", "\n">>

\* The queries file as setup_queries_file leaves it when it had to create it.
Template ==
    TemplateWrite1 \o TemplateWrite2 \o TemplateWrite3 \o TemplateWrite4
        \o TemplateWrite5 \o TemplateWrite6 \o TemplateWrite7

-----------------------------------------------------------------------------
(* load_queries *)

\* Index of the first "\n" of a text, 0 when it has none.
FirstNewline(text) ==
    IF \E k \in 1..Len(text) : text[k] = "\n"
    THEN CHOOSE k \in 1..Len(text) :
            text[k] = "\n" /\ \A m \in 1..(k - 1) : text[m] # "\n"
    ELSE 0

\* "for line in file": the lines of a text, each with its terminating "\n";
\* a last line without "\n" is a line too, an empty text has no line.
RECURSIVE FileLines(_)
FileLines(text) ==
    IF text = <<>> THEN <<>>
    ELSE LET n == FirstNewline(text) IN
         IF n = 0 THEN <<text>>
         ELSE <<SubSeq(text, 1, n)>> \o FileLines(SubSeq(text, n + 1, Len(text)))

\* KeepLine with the tests made on the line as read, not on line.strip().
KeepLine_Unstripped(line) == line # <<>> /\ ~startswith(line, <<"#">>)

\* The condition of the list comprehension of load_queries.
KeepLine(line) == strip(line) # <<>> /\ ~startswith(strip(line), <<"#">>)

\* The list comprehension of load_queries over the lines of a text.
ParseQueries(text) ==
    LET kept == SelectSeq(FileLines(text), KeepLine)
    IN  [k \in 1..Len(kept) |-> strip(kept[k])]

-----------------------------------------------------------------------------
(* The search provider and search_query *)

\* What the provider can do at the end of the URLs it yields.
SearchOutcomes == {"ok", "HTTPError", "Exception"}

\* The k-th URL the provider yields for a query.
Url(query, k) == "http://" \o Str(query) \o "/" \o ToString(k)

\* The first n URLs the provider yields for a query.
Yielded(query, n) == [k \in 1..n |-> Url(query, k)]

\* Caught without the "except Exception" clause.
Caught_OnlyHTTP(outcome) == outcome = "HTTPError"

\* The except clauses of search_query: HTTPError, then Exception.
Caught(outcome) == outcome = "HTTPError" \/ outcome = "Exception"

\* search_query returning an empty list from its except branches.
search_query_DropsPartial(query, n, outcome) ==
    [ urls   |-> IF outcome = "ok" THEN Yielded(query, n) ELSE <<>>,
      error  |-> outcome # "ok" /\ Caught(outcome),
      raised |-> IF outcome = "ok" \/ Caught(outcome) THEN "none" ELSE outcome ]

\* search_query(query) when the provider yields n URLs and then ends with
\* outcome: the list returned, whether the except branch ran (errors += 1),
\* and the exception that leaves the function, if any.
search_query(query, n, outcome) ==
    [ urls   |-> Yielded(query, n),
      error  |-> outcome # "ok" /\ Caught(outcome),
      raised |-> IF outcome = "ok" \/ Caught(outcome) THEN "none" ELSE outcome ]

-----------------------------------------------------------------------------
(* save_results *)

\* datetime.now().strftime('%Y-%m-%d %H:%M:%S')
Timestamps == {"2026-11-06 07:00:00", "2026-11-06 07:00:01"}

\* ShouldWrite without the early return.
ShouldWrite_Always(us) == TRUE

\* The early return of save_results.
ShouldWrite(us) == us # <<>>

\* Block with the count line stating the cap instead of len(urls).
Block_CountsCap(query, timestamp, us) ==
    << "\n# Query: " \o Str(query) \o "\n",
       "# Timestamp: " \o timestamp \o "\n",
       "# Results: " \o ToString(max_results) \o " URLs\n",
       Repeat("-", SeparatorWidth) \o "\n" >>
    \o [k \in 1..Len(us) |-> us[k] \o "\n"]
    \o << "\n" >>

\* The strings save_results hands to f.write, in order.
Block(query, timestamp, us) ==
    << "\n# Query: " \o Str(query) \o "\n",
       "# Timestamp: " \o timestamp \o "\n",
       "# Results: " \o ToString(Len(us)) \o " URLs\n",
       Repeat("-", SeparatorWidth) \o "\n" >>
    \o [k \in 1..Len(us) |-> us[k] \o "\n"]
    \o << "\n" >>

\* Written with the file opened in mode "w".
Written_Truncating(old, new) == new

\* open(self.results_file, "a"): what the file holds once written is added
\* to what it held.
Written(old, new) == old \o new

\* SaveFailure with the error swallowed around save_results.
SaveFailure_Swallowed == [pc |-> "account", uncaught |-> "none"]

\* Neither save_results nor run has an except clause around the writes: the
\* OSError leaves both, and main with them.
SaveFailure == [pc |-> "crashed", uncaught |-> "OSError"]

-----------------------------------------------------------------------------
(* run *)

\* RunEntry without the early return: the loop runs zero times.
RunEntry_NoEarlyReturn(qs) == IF qs = <<>> THEN "summary" ELSE "search"

\* Where run goes first: the early return on an empty list, else the loop.
RunEntry(qs) == IF qs = <<>> THEN "done" ELSE "search"

\* Accounted adding one URL per query instead of len(urls).
Accounted_OnePerQuery(stats, us) ==
    [stats EXCEPT !.queries_processed = @ + 1, !.urls_found = @ + 1]

\* Accounted counting a query without URLs as an error.
Accounted_EmptyIsError(stats, us) ==
    [stats EXCEPT !.queries_processed = @ + 1, !.urls_found = @ + Len(us),
                  !.errors = @ + (IF us = <<>> THEN 1 ELSE 0)]

\* The two increments of run after save_results.
Accounted(stats, us) ==
    [stats EXCEPT !.queries_processed = @ + 1, !.urls_found = @ + Len(us)]

-----------------------------------------------------------------------------
(* Initial states *)

BoundedSeqs(S, n) == UNION {[1..k -> S] : k \in 0..n}

QueryPool == {<<"f", "o", "o">>, <<"b", "a", "r">>}

\* A queries file holding the given queries, one per line, under a comment.
QueriesFile(qs) ==
    <<"#", " ", "q", "\n">> \o Flatten([k \in 1..Len(qs) |-> qs[k] \o <<"\n">>])

\* Characters of the queries files of SpecLoad.
FileAlphabet == {"a", "#", " ", "\n"}

\* What an earlier session can have left in the results file.
EarlierLog ==
    Block(<<"o", "l", "d">>, "2026-11-05 23:59:59", Yielded(<<"o", "l", "d">>, 1))

InitRest ==
    /\ pc = "start"
    /\ queries = <<>>
    /\ i = 0
    /\ urls = <<>>
    /\ session_stats = [queries_processed |-> 0, urls_found |-> 0, errors |-> 0]
    /\ uncaught = "none"
    /\ searches = <<>>
    /\ sleeps = [url |-> 0, query |-> 0]
    /\ summary = <<>>
    /\ io_failed = FALSE
    /\ log0 = [exists |-> results_file_exists, chunks |-> results_file_chunks]

\* A session: the queries file is absent or holds up to MaxQueries queries;
\* the results file is absent or holds what an earlier session appended.
Init ==
    /\ \/ queries_file_exists = FALSE /\ queries_file_text = <<>>
       \/ /\ queries_file_exists = TRUE
          /\ \E qs \in BoundedSeqs(QueryPool, MaxQueries) :
                queries_file_text = QueriesFile(qs)
    /\ \/ results_file_exists = FALSE /\ results_file_chunks = <<>>
       \/ results_file_exists = TRUE /\ results_file_chunks \in {<<>>, EarlierLog}
    /\ InitRest

\* Loading alone: the queries file is absent or holds any text of up to
\* MaxFileLen characters.
InitLoad ==
    /\ \/ queries_file_exists = FALSE /\ queries_file_text = <<>>
       \/ /\ queries_file_exists = TRUE
          /\ queries_file_text \in BoundedSeqs(FileAlphabet, MaxFileLen)
    /\ results_file_exists = FALSE
    /\ results_file_chunks = <<>>
    /\ InitRest

-----------------------------------------------------------------------------
(* Actions *)

\* queries = bot.load_queries()
LoadQueries ==
    /\ pc = "start"
    /\ LET text == IF queries_file_exists THEN queries_file_text ELSE Template
       IN  /\ queries_file_exists' = TRUE
           /\ queries_file_text' = text
           /\ queries' = ParseQueries(text)
    /\ pc' = "idle"
    /\ UNCHANGED <<results_file_exists, results_file_chunks, i, urls, session_stats,
                   uncaught, searches, sleeps, summary, io_failed, log0>>

\* bot.run(queries), up to the first iteration of the loop
RunStart ==
    /\ pc = "idle"
    /\ pc' = RunEntry(queries)
    /\ i' = IF pc' = "search" THEN 1 ELSE i
    /\ UNCHANGED <<queries_file_exists, queries_file_text, results_file_exists,
                   results_file_chunks, queries, urls, session_stats, uncaught, searches,
                   sleeps, summary, io_failed, log0>>

\* urls = self.search_query(query)
SearchQuery ==
    /\ pc = "search"
    /\ \E n \in 0..max_results, outcome \in SearchOutcomes :
          LET r == search_query(queries[i], n, outcome) IN
          /\ searches' = Append(searches, [query |-> queries[i],
                                           yielded |-> Yielded(queries[i], n),
                                           failed |-> outcome # "ok"])
          /\ sleeps' = [sleeps EXCEPT !.url = @ + n]
          /\ session_stats' = IF r.error
                              THEN [session_stats EXCEPT !.errors = @ + 1]
                              ELSE session_stats
          /\ IF r.raised = "none"
             THEN urls' = r.urls /\ pc' = "save" /\ UNCHANGED uncaught
             ELSE uncaught' = r.raised /\ pc' = "crashed" /\ UNCHANGED urls
    /\ UNCHANGED <<queries_file_exists, queries_file_text, results_file_exists,
                   results_file_chunks, queries, i, summary, io_failed, log0>>

\* self.save_results(query, urls)
SaveResults ==
    /\ pc = "save"
    /\ IF ~ShouldWrite(urls)
       THEN /\ pc' = "account"
            /\ UNCHANGED <<results_file_exists, results_file_chunks, uncaught, io_failed>>
       ELSE \E timestamp \in Timestamps :
              LET block == Block(queries[i], timestamp, urls) IN
              \/ \* every write succeeds
                 /\ results_file_exists' = TRUE
                 /\ results_file_chunks' = Written(results_file_chunks, block)
                 /\ pc' = "account"
                 /\ UNCHANGED <<uncaught, io_failed>>
              \/ \* open() raises: nothing is written, nothing is created
                 /\ io_failed' = TRUE
                 /\ uncaught' = SaveFailure.uncaught
                 /\ pc' = SaveFailure.pc
                 /\ UNCHANGED <<results_file_exists, results_file_chunks>>
              \/ \* a write raises after w of the strings reached the file
                 \E w \in 0..(Len(block) - 1) :
                    /\ results_file_exists' = TRUE
                    /\ results_file_chunks' =
                          Written(results_file_chunks, SubSeq(block, 1, w))
                    /\ io_failed' = TRUE
                    /\ uncaught' = SaveFailure.uncaught
                    /\ pc' = SaveFailure.pc
    /\ UNCHANGED <<queries_file_exists, queries_file_text, queries, i, urls,
                   session_stats, searches, sleeps, summary, log0>>

\* the two increments, the delay before the next query, and the loop's step
Account ==
    /\ pc = "account"
    /\ session_stats' = Accounted(session_stats, urls)
    /\ IF i < Len(queries)
       THEN /\ sleeps' = [sleeps EXCEPT !.query = @ + 1]
            /\ i' = i + 1
            /\ pc' = "search"
       ELSE /\ pc' = "summary"
            /\ UNCHANGED <<sleeps, i>>
    /\ UNCHANGED <<queries_file_exists, queries_file_text, results_file_exists,
                   results_file_chunks, queries, urls, uncaught, searches, summary,
                   io_failed, log0>>

\* self.print_summary()
PrintSummary ==
    /\ pc = "summary"
    /\ summary' = <<session_stats>>
    /\ pc' = "done"
    /\ UNCHANGED <<queries_file_exists, queries_file_text, results_file_exists,
                   results_file_chunks, queries, i, urls, session_stats, uncaught,
                   searches, sleeps, io_failed, log0>>

Next ==
    \/ LoadQueries
    \/ RunStart
    \/ SearchQuery
    \/ SaveResults
    \/ Account
    \/ PrintSummary

Spec == Init /\ [][Next]_vars

NextLoad == LoadQueries

SpecLoad == InitLoad /\ [][NextLoad]_vars

-----------------------------------------------------------------------------
(* Vocabulary of the properties *)

IsPrefix(a, b) == Len(a) <= Len(b) /\ SubSeq(b, 1, Len(a)) = a

\* What this session added to the results file.
Appended ==
    SubSeq(results_file_chunks, Len(log0.chunks) + 1, Len(results_file_chunks))

\* The queries search() was called with, in call order.
Searched == [k \in 1..Len(searches) |-> searches[k].query]

RECURSIVE SumYielded(_)
SumYielded(ss) == IF ss = <<>> THEN 0 ELSE Len(Head(ss).yielded) + SumYielded(Tail(ss))

FailedSearches == {k \in 1..Len(searches) : searches[k].failed}

ZeroStats == [queries_processed |-> 0, urls_found |-> 0, errors |-> 0]

Running == pc \in {"search", "save", "account"}

Completed == pc \in {"summary", "done"}

-----------------------------------------------------------------------------
(* C1 *)

\* C1: a failure of the search provider, of either kind, while query i is
\* processed never ends the session.  No exception of the provider leaves
\* main; the session is only ever halted by a failure of the results file;
\* while the loop runs, the queries searched so far are exactly the first
\* ones of the list, one call each, and a next step exists; and a run that
\* completes has searched every query and printed the summary.
C1_SearchFailureIsolated ==
    /\ uncaught \in {"none", "OSError"}
    /\ (pc = "crashed" \/ uncaught # "none") => io_failed
    /\ Running =>
          /\ i \in 1..Len(queries)
          /\ Len(searches) = (IF pc = "search" THEN i - 1 ELSE i)
          /\ Searched = SubSeq(queries, 1, Len(searches))
    /\ (Running \/ pc = "summary") =>
          ENABLED (SearchQuery \/ SaveResults \/ Account \/ PrintSummary)
    /\ (Completed /\ queries # <<>>) => Searched = queries
    /\ (pc = "done" /\ queries # <<>>) => summary # <<>>

\* A run of two queries whose first search failed with no URL at all, whose
\* second search succeeded, and which printed its summary.
C1_Witness ==
    /\ pc = "done"
    /\ Len(queries) = 2
    /\ Len(searches) = 2
    /\ searches[1].failed /\ searches[1].yielded = <<>>
    /\ ~searches[2].failed
    /\ summary # <<>>

-----------------------------------------------------------------------------
(* C2 *)

\* C2: after a run over N queries the stats are queries_processed = N,
\* urls_found = the sum of the numbers of URLs the searches returned, and
\* errors = the number of searches that failed; the summary prints them.
C2_FinalStats ==
    Completed =>
        /\ session_stats.queries_processed = Len(queries)
        /\ session_stats.urls_found = SumYielded(searches)
        /\ session_stats.errors = Cardinality(FailedSearches)
        /\ (pc = "done" /\ queries # <<>>) => summary = <<session_stats>>

\* The end-to-end example: "foo" returns two URLs, "bar" fails with none.
C2_Witness ==
    /\ pc = "done"
    /\ queries = <<(<<"f", "o", "o">>), (<<"b", "a", "r">>)>>
    /\ Len(searches) = 2
    /\ ~searches[1].failed /\ Len(searches[1].yielded) = 2
    /\ searches[2].failed /\ searches[2].yielded = <<>>
    /\ session_stats = [queries_processed |-> 2, urls_found |-> 2, errors |-> 1]

-----------------------------------------------------------------------------
(* C3 *)

\* C3: the results file is append-only: every step leaves what the file held
\* as a prefix of what it holds, and never removes the file.
C3_AppendOnly ==
    [][ /\ IsPrefix(results_file_chunks, results_file_chunks')
        /\ results_file_exists => results_file_exists' ]_vars

\* A session that found the block of an earlier session in the file and has
\* added a block of its own.
C3_Witness ==
    /\ log0.chunks # <<>>
    /\ Len(results_file_chunks) > Len(log0.chunks)
    /\ pc = "account"

-----------------------------------------------------------------------------
(* C4 *)

\* C4: save_results of an empty list of URLs writes nothing: the results
\* file keeps its content, is not created, and the loop goes on.
C4_NoWriteForNoUrls ==
    [][ (pc = "save" /\ urls = <<>>) =>
            /\ results_file_chunks' = results_file_chunks
            /\ results_file_exists' = results_file_exists
            /\ pc' = "account" ]_vars

\* Two queries without URLs, the first search ending normally and the second
\* failing, both saved, and still no results file.
C4_Witness ==
    /\ pc = "account"
    /\ i = 2
    /\ Len(searches) = 2
    /\ searches[1].yielded = <<>> /\ ~searches[1].failed
    /\ searches[2].yielded = <<>> /\ searches[2].failed
    /\ urls = <<>>
    /\ ~results_file_exists

-----------------------------------------------------------------------------
(* C5 *)

\* C5: a failure to open or write the results file while query i is saved
\* leaves main as an OSError: the session stops there, query i is not
\* accounted, no later query is searched and no summary is printed.
C5_PersistenceFailureHalts ==
    io_failed =>
        /\ pc = "crashed"
        /\ uncaught = "OSError"
        /\ ~ENABLED Next
        /\ Len(searches) = i
        /\ session_stats.queries_processed = i - 1
        /\ summary = <<>>

\* The results file failed on the first of two queries.
C5_Witness ==
    /\ io_failed
    /\ i = 1
    /\ Len(queries) = 2
    /\ Len(searches) = 1

-----------------------------------------------------------------------------
(* C6 *)

Dashes50 == "--------------------------------------------------"

Decimal(k) == <<"0", "1", "2", "3", "4", "5", "6", "7", "8", "9">>[k + 1]

\* The block of a query with its URLs, as the format describes it.
ExpectedBlock(query, timestamp, us) ==
    << "\n# Query: " \o Str(query) \o "\n",
       "# Timestamp: " \o timestamp \o "\n",
       "# Results: " \o Decimal(Len(us)) \o " URLs\n",
       Dashes50 \o "\n" >>
    \o [k \in 1..Len(us) |-> us[k] \o "\n"]
    \o << "\n" >>

\* One block per search from the k-th on that yielded a URL, in order.
RECURSIVE ExpectedLog(_, _)
ExpectedLog(k, stamps) ==
    IF k > Len(searches) THEN <<>>
    ELSE (IF searches[k].yielded = <<>> THEN <<>>
          ELSE ExpectedBlock(queries[k], stamps[k], searches[k].yielded))
         \o ExpectedLog(k + 1, stamps)

\* C6: after a run that completes, what the session appended is one block per
\* query that yielded k >= 1 URLs, in query order: the query line, a
\* timestamp line, the count line stating k, a line of 50 "-" and the k URLs
\* in the order received, then an empty line; nothing else, and as many
\* separator lines as there are such queries.
C6_OneBlockPerQuery ==
    Completed =>
        /\ IsPrefix(log0.chunks, results_file_chunks)
        /\ \E stamps \in [1..Len(searches) -> Timestamps] :
              Appended = ExpectedLog(1, stamps)
        /\ Len(SelectSeq(Appended, LAMBDA c : c = Dashes50 \o "\n"))
              = Cardinality({k \in 1..Len(searches) : searches[k].yielded # <<>>})

\* The same query twice, two URLs each time: two blocks of seven strings.
C6_Witness ==
    /\ pc = "done"
    /\ queries = <<(<<"f", "o", "o">>), (<<"f", "o", "o">>)>>
    /\ Len(searches) = 2
    /\ Len(searches[1].yielded) = 2
    /\ Len(searches[2].yielded) = 2
    /\ Len(Appended) = 14
    /\ SubSeq(Appended, 3, 7) = SubSeq(Appended, 10, 14)

-----------------------------------------------------------------------------
(* C7 *)

\* The URL lines of a sequence of strings of the results file.
UrlLines(chunks) ==
    SelectSeq(chunks, LAMBDA c :
        \E k \in 1..Len(searches) :
            \E m \in 1..Len(searches[k].yielded) : c = searches[k].yielded[m] \o "\n")

\* C7: when the provider fails after yielding j URLs, search_query gives up
\* on the query (one call per query, in order), returns exactly those j URLs
\* in the order received, and the failure is counted once in errors; the j
\* URLs are counted in urls_found and, in a run that completes, are in the
\* results file like those of any other query.
C7_PartialResultsKept ==
    /\ Len(searches) <= Len(queries)
    /\ Searched = SubSeq(queries, 1, Len(searches))
    /\ (pc \in {"save", "account"}) => urls = searches[i].yielded
    /\ (pc \notin {"start", "crashed"}) =>
          session_stats.errors = Cardinality(FailedSearches)
    /\ (pc \in {"search", "summary", "done"}) =>
          session_stats.urls_found = SumYielded(searches)
    /\ Completed =>
          UrlLines(Appended) =
              Flatten([k \in 1..Len(searches) |->
                         [m \in 1..Len(searches[k].yielded) |->
                              searches[k].yielded[m] \o "\n"]])

\* A single query whose search failed after one URL: the run completed with
\* that URL in a block of its own, one URL found and one error.
C7_Witness ==
    /\ pc = "done"
    /\ Len(searches) = 1
    /\ searches[1].failed
    /\ Len(searches[1].yielded) = 1
    /\ Len(Appended) = 6
    /\ Appended[5] = searches[1].yielded[1] \o "\n"
    /\ session_stats = [queries_processed |-> 1, urls_found |-> 1, errors |-> 1]

-----------------------------------------------------------------------------
(* C8 *)

\* C8: run of an empty list goes from idle to done and nowhere else: no
\* search, no write to the results file, no creation of it, no sleep, no
\* summary, all counters zero.
C8_EmptyRun ==
    (pc # "start" /\ queries = <<>>) =>
        /\ pc \in {"idle", "done"}
        /\ searches = <<>>
        /\ results_file_exists = log0.exists
        /\ results_file_chunks = log0.chunks
        /\ sleeps = [url |-> 0, query |-> 0]
        /\ summary = <<>>
        /\ session_stats = ZeroStats
        /\ uncaught = "none"

\* run has returned on a queries file that holds a comment only, and there
\* is no results file.
C8_Witness ==
    /\ pc = "done"
    /\ queries = <<>>
    /\ queries_file_text = <<"#", " ", "q", "\n">>
    /\ ~results_file_exists

-----------------------------------------------------------------------------
(* C9 *)

SetMax(S) == CHOOSE x \in S : \A y \in S : y <= x

SetMin(S) == CHOOSE x \in S : \A y \in S : x <= y

\* A line without its leading and trailing whitespace: what lies between its
\* first and its last character that is not whitespace.
Trimmed(line) ==
    LET solid == {k \in 1..Len(line) : line[k] \notin Whitespace}
    IN  IF solid = {} THEN <<>> ELSE SubSeq(line, SetMin(solid), SetMax(solid))

\* The positions a line of the text ends at: each "\n", and the last
\* character when it is not one.
LineEnds(text) ==
    {k \in 1..Len(text) : text[k] = "\n" \/ k = Len(text)}

\* The line of the text that ends at position e.
LineEndingAt(text, e) ==
    SubSeq(text, 1 + SetMax({0} \cup {d \in LineEnds(text) : d < e}), e)

IsBlank(line) == Trimmed(line) = <<>>

IsComment(line) == ~IsBlank(line) /\ Trimmed(line)[1] = "#"

\* The ends of the lines that are neither blank nor comments.
ValidEnds(text) ==
    {e \in LineEnds(text) :
        ~IsBlank(LineEndingAt(text, e)) /\ ~IsComment(LineEndingAt(text, e))}

\* The valid lines of the text, trimmed, in file order.
ValidTrimmedLines(text) ==
    LET ends == ValidEnds(text)
        nth(k) == CHOOSE e \in ends : Cardinality({d \in ends : d <= e}) = k
    IN  [k \in 1..Cardinality(ends) |-> Trimmed(LineEndingAt(text, nth(k)))]

\* What load_queries returns, for the text the queries file holds after it.
LoadFilters ==
    /\ queries' = ValidTrimmedLines(queries_file_text')
    /\ Len(queries') + Cardinality(LineEnds(queries_file_text') \ ValidEnds(queries_file_text'))
          = Cardinality(LineEnds(queries_file_text'))
    /\ \A k \in 1..Len(queries') :
          /\ queries'[k] # <<>>
          /\ Trimmed(queries'[k]) = queries'[k]
          /\ queries'[k][1] # "#"
    /\ queries_file_exists =>
          queries_file_exists' /\ queries_file_text' = queries_file_text

\* C9 as stated: load_queries returns the valid lines, trimmed, in file
\* order; and an absent queries file is created holding comment lines only,
\* with an empty list returned.
C9_Original ==
    [][ pc = "start" =>
            /\ LoadFilters
            /\ ~queries_file_exists =>
                  /\ queries_file_exists'
                  /\ queries' = <<>>
                  /\ \A e \in LineEnds(queries_file_text') :
                        IsComment(LineEndingAt(queries_file_text', e)) ]_vars

\* C9, amended: load_queries returns the valid lines, trimmed, in file
\* order; and an absent queries file is created holding seven comment lines
\* and one blank line, nothing else, with an empty list returned.
C9_LoadFiltersAndCreates ==
    [][ pc = "start" =>
            /\ LoadFilters
            /\ ~queries_file_exists =>
                  LET text == queries_file_text'
                      blank == {e \in LineEnds(text) : IsBlank(LineEndingAt(text, e))}
                      comments == {e \in LineEnds(text) : IsComment(LineEndingAt(text, e))}
                  IN  /\ queries_file_exists'
                      /\ queries' = <<>>
                      /\ LineEnds(text) = blank \cup comments
                      /\ Cardinality(comments) = 7
                      /\ Cardinality(blank) = 1 ]_vars

\* load_queries has created the queries file and returned an empty list.
C9_Witness ==
    /\ pc = "idle"
    /\ queries_file_exists
    /\ queries_file_text = Template
    /\ queries = <<>>

-----------------------------------------------------------------------------
(* C10 *)

\* C10 as stated: the search step and the append step leave the three
\* counters as they were.
C10_Original ==
    [][ (pc = "search" \/ pc = "save") => session_stats' = session_stats ]_vars

\* C10, amended: the search step adds one to errors exactly when the search
\* failed and leaves queries_processed and urls_found as they were; the
\* append step leaves the three counters as they were; the accounting step
\* adds 1 to queries_processed and len(urls) to urls_found and leaves errors
\* as it was; no other step changes a counter.
C10_StatsMutation ==
    [][ /\ pc = "search" =>
              session_stats' =
                  [session_stats EXCEPT
                      !.errors = @ + (IF searches'[Len(searches')].failed THEN 1 ELSE 0)]
        /\ pc = "save" => session_stats' = session_stats
        /\ pc = "account" =>
              session_stats' =
                  [session_stats EXCEPT !.queries_processed = @ + 1,
                                        !.urls_found = @ + Len(urls)]
        /\ pc \notin {"search", "save", "account"} =>
              session_stats' = session_stats ]_vars

\* The search of the first query has failed and is counted in errors before
\* the query is saved or accounted.
C10_Witness ==
    /\ pc = "save"
    /\ i = 1
    /\ searches[1].failed
    /\ session_stats = [queries_processed |-> 0, urls_found |-> 0, errors |-> 1]

-----------------------------------------------------------------------------
====
